---- MODULE Spec2Model ----
(***************************************************************************)
(* Model of src/main.py: the daily job that downloads a usage CSV, fetches *)
(* the Planhat company roster, computes cumulative and forecasted billable *)
(* CPUs per organization and posts them to Planhat.                        *)
(*                                                                         *)
(* Representation.                                                         *)
(*   - a Python str is a sequence of one-character strings;                *)
(*   - Python None for an id is the one-element sequence NoneId;           *)
(*   - a DataFrame-or-None is a record [none, rows];                       *)
(*   - a CSV cell of column Total is [num, val]: a number val, or a text   *)
(*     that is not numeric (num = FALSE);                                  *)
(*   - the metrics are kept in hundredths (round(x, 2) * 100), the Totals  *)
(*     are whole numbers;                                                  *)
(*   - a date is a record [year, month, day].                              *)
(***************************************************************************)
EXTENDS Integers, Sequences, FiniteSets, TLC

VARIABLES
    env,            \* os.environ: the four configuration variables
    cfg,            \* locals of pull_and_update read from the environment
    pc,             \* position inside pull_and_update
    result,         \* what the invocation returned (or that it raised)
    execution_date, \* datetime.utcnow() of this invocation
    df_current,     \* the usage table (mutated in place by calculate_metrics)
    df_loaded,      \* history: the table exactly as the download returned it
    df_companies,   \* the roster
    idx,            \* number of roster rows the for loop has consumed
    trace,          \* history: the external calls made, in order
    cm_org_ids,     \* harness of calculate_metrics: its org_ids argument
    cm_date,        \* harness: its data_date argument
    cm_first,       \* harness: the result of the first call
    cm_out          \* harness: the result of the latest call

vars == <<env, cfg, pc, result, execution_date, df_current, df_loaded,
          df_companies, idx, trace, cm_org_ids, cm_date, cm_first, cm_out>>

(***************************************************************************)
(* Bounds of the model.                                                    *)
(***************************************************************************)
MaxRows == 2

MaxRoster == 2

MaxCalcRows == 3

(***************************************************************************)
(* Strings.                                                                *)
(***************************************************************************)
NoneId == <<"<None>">>

IsSpace(c) == c \in {" ", "\t"}

\* str.lower() on the letters the model uses
LowerChar(c) ==
    CASE c = "A" -> "a"
      [] c = "B" -> "b"
      [] c = "C" -> "c"
      [] c = "O" -> "o"
      [] OTHER -> c

UpperChar(c) ==
    CASE c = "a" -> "A"
      [] c = "b" -> "B"
      [] c = "c" -> "C"
      [] c = "o" -> "O"
      [] OTHER -> c

Lower(s) == [k \in 1..Len(s) |-> LowerChar(s[k])]

RECURSIVE LStrip(_)
LStrip(s) == IF s # <<>> /\ IsSpace(Head(s)) THEN LStrip(Tail(s)) ELSE s

RECURSIVE RStrip(_)
RStrip(s) ==
    IF s # <<>> /\ IsSpace(s[Len(s)]) THEN RStrip(SubSeq(s, 1, Len(s) - 1)) ELSE s

Strip(s) == RStrip(LStrip(s))

\* a variant of CleanId that forgets .lower()
CleanId_NoLower(s) == Strip(s)

\* str(x).strip().lower(), main.py lines 94 and 97
CleanId(s) == Lower(Strip(s))

(***************************************************************************)
(* Dates.                                                                  *)
(***************************************************************************)
IsLeap(y) == (y % 4 = 0) /\ ((y % 100 # 0) \/ (y % 400 = 0))

\* a variant of DaysInMonth that knows no leap year
DaysInMonth_NoLeap(y, m) ==
    IF m = 2 THEN 28 ELSE IF m \in {4, 6, 9, 11} THEN 30 ELSE 31

\* calendar.monthrange(year, month)[1]
DaysInMonth(y, m) ==
    IF m = 2 THEN (IF IsLeap(y) THEN 29 ELSE 28)
    ELSE IF m \in {4, 6, 9, 11} THEN 30 ELSE 31

Date(y, m, d) == [year |-> y, month |-> m, day |-> d]

\* execution_date - timedelta(days=1)
MinusOneDay(dt) ==
    IF dt.day > 1 THEN Date(dt.year, dt.month, dt.day - 1)
    ELSE IF dt.month > 1
         THEN Date(dt.year, dt.month - 1, DaysInMonth(dt.year, dt.month - 1))
         ELSE Date(dt.year - 1, 12, 31)

Digit(n) == <<"0", "1", "2", "3", "4", "5", "6", "7", "8", "9">>[n + 1]

DigitVal(c) == CHOOSE n \in 0..9 : Digit(n) = c

\* strftime('%Y-%m-%d')
Strftime(dt) ==
    << Digit(dt.year \div 1000), Digit((dt.year \div 100) % 10),
       Digit((dt.year \div 10) % 10), Digit(dt.year % 10), "-",
       Digit(dt.month \div 10), Digit(dt.month % 10), "-",
       Digit(dt.day \div 10), Digit(dt.day % 10) >>

\* datetime.strptime(s, '%Y-%m-%d')
Strptime(s) ==
    Date(1000 * DigitVal(s[1]) + 100 * DigitVal(s[2]) + 10 * DigitVal(s[3]) + DigitVal(s[4]),
         10 * DigitVal(s[6]) + DigitVal(s[7]),
         10 * DigitVal(s[9]) + DigitVal(s[10]))

(***************************************************************************)
(* calculate_metrics (main.py 89-113).                                     *)
(***************************************************************************)
Num(v) == [num |-> TRUE, val |-> v]

Text(v) == [num |-> FALSE, val |-> v]

\* pd.to_numeric(cell, errors='coerce') followed by fillna(0)
CoerceTotal(cell) == IF cell.num THEN cell ELSE Num(0)

\* lines 97-98: both columns are rewritten in df_current itself
NormalizeTable(rows) ==
    [k \in 1..Len(rows) |->
        [OrganizationID |-> CleanId(rows[k].OrganizationID),
         Total |-> CoerceTotal(rows[k].Total)]]

\* line 101: df_current[df_current['OrganizationID'].isin(org_ids)]
FilterRows(rows, ids) == SelectSeq(rows, LAMBDA r : r.OrganizationID \in ids)

RECURSIVE SumTotal(_)
SumTotal(rows) ==
    IF rows = <<>> THEN 0 ELSE Head(rows).Total.val + SumTotal(Tail(rows))

\* round(num / den, 2) in hundredths, ties to even
Round2(num, den) ==
    LET q == (100 * num) \div den
        r == (100 * num) % den
    IN  IF 2 * r < den THEN q
        ELSE IF 2 * r > den THEN q + 1
        ELSE IF q % 2 = 0 THEN q ELSE q + 1

\* a variant of TableAfterCalc that keeps the filtered rows in df_current
TableAfterCalc_Filtered(rows, org_ids) ==
    FilterRows(NormalizeTable(rows), {CleanId(o) : o \in org_ids})

\* the table df_current is left holding when calculate_metrics returns
TableAfterCalc(rows, org_ids) == NormalizeTable(rows)

\* the returned pair (cumulative, forecasted), in hundredths
calculate_metrics(rows, org_ids, data_date) ==
    LET ids == {CleanId(o) : o \in org_ids}
        df_current_org == FilterRows(NormalizeTable(rows), ids)
        cumulative_total == SumTotal(df_current_org)
        days_passed == data_date.day
        days_in_month == DaysInMonth(data_date.year, data_date.month)
    IN  [cumulative |-> Round2(cumulative_total, 1),
         forecasted |-> IF days_passed > 0
                        THEN Round2(cumulative_total * days_in_month, days_passed)
                        ELSE 0]

(***************************************************************************)
(* download_and_process_csv_for_date (main.py 19-49).                      *)
(* A bucket is [error, blobs]: error names the exception the storage       *)
(* client raises ("none" when it raises nothing); a blob is [date, csv,    *)
(* content]: the date its name contains, whether the name ends in .csv,    *)
(* and the parsed rows.                                                    *)
(***************************************************************************)
NoneDF == [none |-> TRUE, rows |-> <<>>]

DF(rows) == [none |-> FALSE, rows |-> rows]

StorageErrors == {"NotFound", "Forbidden", "GoogleAPIError", "Exception"}

download_and_process_csv_for_date(bucket, target_date) ==
    IF bucket.error # "none" THEN NoneDF
    ELSE LET hits == SelectSeq(bucket.blobs,
                               LAMBDA b : b.date = target_date /\ b.csv)
         IN  IF hits = <<>> THEN NoneDF ELSE DF(Head(hits).content)

(***************************************************************************)
(* fetch_planhat_companies (main.py 51-87).                                *)
(* A response is [status, body]; a company of the body is                  *)
(* [id, has_custom, org, name], org being custom['Org ID'] or NoneId.      *)
(***************************************************************************)
ResponseStatuses == {"ok", "http_error", "transport_error"}

fetch_planhat_companies(response) ==
    IF response.status # "ok" THEN NoneDF
    ELSE DF([k \in 1..Len(response.body) |->
                [PlanhatID |-> response.body[k].id,
                 OrgID |-> IF response.body[k].has_custom
                           THEN response.body[k].org ELSE NoneId,
                 CompanyName |-> response.body[k].name]])

(***************************************************************************)
(* update_planhat (main.py 115-154).                                       *)
(***************************************************************************)
\* lines 128-145: the JSON array posted in one request
PlanhatData(org_id, date_str, cumulative_cpus, forecasted_cpus) ==
    LET upload_date == Strptime(date_str)
    IN  << [dimensionId |-> "Cumulative Billable CPUs",
            value |-> cumulative_cpus,
            externalId |-> org_id,
            model |-> "Asset",
            date |-> Strftime(upload_date)],
           [dimensionId |-> "Forecasted Billable CPUs",
            value |-> forecasted_cpus,
            externalId |-> org_id,
            model |-> "Asset",
            date |-> Strftime(upload_date)] >>

\* a variant of UpdateCatches that catches HTTPError only
UpdateCatches_HttpOnly(outcome) == outcome = "http_error"

\* line 152: except requests.exceptions.RequestException. HTTPError (raised by
\* raise_for_status) and ConnectionError/Timeout are both RequestExceptions.
UpdateCatches(outcome) == outcome \in {"http_error", "transport_error"}

(***************************************************************************)
(* Inputs of the model.                                                    *)
(***************************************************************************)
\* GCP_SERVICE_ACCOUNT_JSON: unset, text that is no JSON, the JSON text "{}",
\* or a service-account object
CredValues == {"absent", "invalid", "empty_object", "valid"}

VarValues == {"absent", "set"}

Envs == [cred : CredValues, token : VarValues, tenant : VarValues, bucket : VarValues]

NoCfg == [service_account_info |-> "unset", api_token |-> "unset",
          planhat_tenant_id |-> "unset", bucket_name |-> "unset"]

\* utcnow() of the invocations considered: the day after a leap day, a day in
\* the middle of a 30-day month
ExecDates == {Date(2024, 3, 1), Date(2024, 6, 11)}

NoMetrics == [cumulative |-> 0, forecasted |-> 0]

\* the ids stand for the UUIDs of lines 190-191 by their first two characters
org_id_sets ==
    << { <<"7", "b">>, <<"a", "2">> },
       { <<"5", "5">>, <<"c", "1">> } >>

RowCands ==
    { [OrganizationID |-> <<" ", "7", "B">>, Total |-> Num(1)],
      [OrganizationID |-> <<"a", "2">>,      Total |-> Num(2)],
      [OrganizationID |-> <<"O", "1", " ">>, Total |-> Text(7)] }

SeqsUpTo(set, n) == UNION {[1..k -> set] : k \in 0..n}

Tables == SeqsUpTo(RowCands, MaxRows)

OrgIdCands ==
    { NoneId, <<>>, <<"7", "b">>, <<"7", "B", " ">>, <<"o", "1">> }

CompanyCands ==
    { [id |-> <<"p">>, has_custom |-> TRUE, org |-> o, name |-> <<"n">>] :
        o \in OrgIdCands }
    \cup { [id |-> <<"p">>, has_custom |-> FALSE, org |-> NoneId, name |-> <<"n">>] }

Bodies == SeqsUpTo(CompanyCands, MaxRoster)

Responses ==
    [status : {"ok"}, body : Bodies]
    \cup [status : ResponseStatuses \ {"ok"}, body : {<<>>}]

BlobsFor(dates, content) ==
    SeqsUpTo([date : dates, csv : BOOLEAN, content : {content}], 2)

Buckets(dates) ==
    UNION { [error : {"none"}, blobs : BlobsFor(dates, t)] : t \in Tables }
    \cup [error : StorageErrors, blobs : {<<>>}]

PublishOutcomes == {"ok", "http_error", "transport_error"}

(***************************************************************************)
(* The history of external calls.                                          *)
(***************************************************************************)
Ev(op, org, arg, ids, metrics, data, outcome) ==
    [op |-> op, org |-> org, arg |-> arg, ids |-> ids, metrics |-> metrics,
     data |-> data, outcome |-> outcome]

CsvFetchEv(target_date) ==
    Ev("csv_fetch", NoneId, target_date, {}, NoMetrics, <<>>, "")

RosterFetchEv == Ev("roster_fetch", NoneId, <<>>, {}, NoMetrics, <<>>, "")

CalcEv(org, ids, m) == Ev("calc", org, <<>>, ids, m, <<>>, "")

PublishEv(org, data, outcome) == Ev("publish", org, <<>>, {}, NoMetrics, data, outcome)

SleepEv == Ev("sleep", NoneId, <<>>, {}, NoMetrics, <<>>, "")

(***************************************************************************)
(* pull_and_update (main.py 156-231).                                      *)
(***************************************************************************)
Returned(msg, code) == [kind |-> "return", msg |-> msg, code |-> code]

Raised(exc) == [kind |-> "raise", msg |-> exc, code |-> 0]

Running == [kind |-> "running", msg |-> "", code |-> 0]

\* line 160: json.loads(os.getenv('GCP_SERVICE_ACCOUNT_JSON'))
JsonLoads(cred) ==
    CASE cred = "absent"       -> [raises |-> "TypeError", value |-> "unset"]
      [] cred = "invalid"      -> [raises |-> "JSONDecodeError", value |-> "unset"]
      [] cred = "empty_object" -> [raises |-> "", value |-> "empty"]
      [] OTHER                 -> [raises |-> "", value |-> "set"]

\* Python truthiness of a configuration value
Truthy(v) == v = "set"

\* line 167
ConfigMissing(c) ==
    ~Truthy(c.bucket_name) \/ ~Truthy(c.service_account_info) \/ ~Truthy(c.api_token)

\* lines 159-169
LoadConfig ==
    /\ pc = "start"
    /\ LET loaded == JsonLoads(env.cred)
           c == [service_account_info |-> loaded.value,
                 api_token |-> env.token,
                 planhat_tenant_id |-> env.tenant,
                 bucket_name |-> env.bucket]
       IN  IF loaded.raises # ""
           THEN /\ pc' = "raised"
                /\ result' = Raised(loaded.raises)
                /\ cfg' = cfg
           ELSE IF ConfigMissing(c)
           THEN /\ pc' = "returned"
                /\ result' = Returned("Env var configuration error", 500)
                /\ cfg' = c
           ELSE /\ pc' = "configured"
                /\ result' = result
                /\ cfg' = c
    /\ UNCHANGED <<env, execution_date, df_current, df_loaded, df_companies, idx,
                   trace, cm_org_ids, cm_date, cm_first, cm_out>>

\* line 173
DataDate == MinusOneDay(execution_date)

\* a variant of CsvTargetDate that looks the file up by date_str
CsvTargetDate_DataDate == Strftime(DataDate)

\* line 177: the date string handed to the download
CsvTargetDate == Strftime(execution_date)

\* a variant of CsvUnavailable that never aborts
CsvUnavailable_Never(df) == FALSE

\* line 178: df_current is None
CsvUnavailable(df) == df.none

\* line 184: df_companies is None
RosterUnavailable(df) == df.none

\* lines 172-180
FetchCsv ==
    /\ pc = "configured"
    /\ \E bucket \in Buckets({Strftime(execution_date), Strftime(DataDate)}) :
         LET df == download_and_process_csv_for_date(bucket, CsvTargetDate)
         IN  /\ df_current' = df
             /\ df_loaded' = df
             /\ trace' = Append(trace, CsvFetchEv(CsvTargetDate))
             /\ IF CsvUnavailable(df)
                THEN /\ pc' = "returned"
                     /\ result' = Returned("CSV data not available", 500)
                ELSE /\ pc' = "csv_ready"
                     /\ result' = result
    /\ UNCHANGED <<env, cfg, execution_date, df_companies, idx,
                   cm_org_ids, cm_date, cm_first, cm_out>>

\* lines 183-186
FetchRoster ==
    /\ pc = "csv_ready"
    /\ \E response \in Responses :
         LET df == fetch_planhat_companies(response)
         IN  /\ df_companies' = df
             /\ trace' = Append(trace, RosterFetchEv)
             /\ IF RosterUnavailable(df)
                THEN /\ pc' = "returned"
                     /\ result' = Returned("Failed to fetch companies", 500)
                ELSE /\ pc' = "loop"
                     /\ result' = result
    /\ UNCHANGED <<env, cfg, execution_date, df_current, df_loaded, idx,
                   cm_org_ids, cm_date, cm_first, cm_out>>

\* a variant of NoOrgId that tests for None only
NoOrgId_NoneOnly(company_org_id) == company_org_id = NoneId

\* line 199: not company_org_id
NoOrgId(company_org_id) == company_org_id = NoneId \/ company_org_id = <<>>

\* lines 204-208: the first alias set that holds the id as it is, or {}
RECURSIVE FirstSetWith(_, _)
FirstSetWith(sets, company_org_id) ==
    IF sets = <<>> THEN {}
    ELSE IF company_org_id \in Head(sets) THEN Head(sets)
    ELSE FirstSetWith(Tail(sets), company_org_id)

\* a variant of OrgIdsOf that ignores the alias sets
OrgIdsOf_Singleton(company_org_id) == {company_org_id}

\* lines 204-215
OrgIdsOf(company_org_id) ==
    LET matching_set == FirstSetWith(org_id_sets, company_org_id)
    IN  IF matching_set # {} THEN matching_set ELSE {company_org_id}

\* lines 195-228: one iteration of the for loop
ProcessCompany ==
    /\ pc = "loop"
    /\ idx < Len(df_companies.rows)
    /\ LET company == df_companies.rows[idx + 1]
           company_org_id == company.OrgID
       IN  IF NoOrgId(company_org_id)
           THEN /\ idx' = idx + 1
                /\ UNCHANGED <<pc, result, df_current, trace>>
           ELSE \E outcome \in PublishOutcomes :
                  LET org_ids == OrgIdsOf(company_org_id)
                      m == calculate_metrics(df_current.rows, org_ids, DataDate)
                      data == PlanhatData(company_org_id, Strftime(DataDate),
                                          m.cumulative, m.forecasted)
                      called == <<CalcEv(company_org_id, org_ids, m),
                                  PublishEv(company_org_id, data, outcome)>>
                  IN  /\ df_current' = DF(TableAfterCalc(df_current.rows, org_ids))
                      /\ IF outcome = "ok" \/ UpdateCatches(outcome)
                         THEN /\ trace' = trace \o called \o <<SleepEv>>
                              /\ idx' = idx + 1
                              /\ UNCHANGED <<pc, result>>
                         ELSE /\ trace' = trace \o called
                              /\ idx' = idx
                              /\ pc' = "raised"
                              /\ result' = Raised(outcome)
    /\ UNCHANGED <<env, cfg, execution_date, df_loaded, df_companies,
                   cm_org_ids, cm_date, cm_first, cm_out>>

\* lines 230-231
Finish ==
    /\ pc = "loop"
    /\ idx = Len(df_companies.rows)
    /\ pc' = "returned"
    /\ result' = Returned("Success", 200)
    /\ UNCHANGED <<env, cfg, execution_date, df_current, df_loaded, df_companies,
                   idx, trace, cm_org_ids, cm_date, cm_first, cm_out>>

Init ==
    /\ env \in Envs
    /\ execution_date \in ExecDates
    /\ cfg = NoCfg
    /\ pc = "start"
    /\ result = Running
    /\ df_current = NoneDF
    /\ df_loaded = NoneDF
    /\ df_companies = NoneDF
    /\ idx = 0
    /\ trace = <<>>
    /\ cm_org_ids = {}
    /\ cm_date = Date(2024, 1, 1)
    /\ cm_first = NoMetrics
    /\ cm_out = NoMetrics

Next == LoadConfig \/ FetchCsv \/ FetchRoster \/ ProcessCompany \/ Finish

Spec == Init /\ [][Next]_vars

(***************************************************************************)
(* calculate_metrics on its own: the table, the id set and the reference   *)
(* date are drawn from bounded sets, the function is called on a copy of   *)
(* the table, an id of org_ids or of the table is replaced, and the        *)
(* function is called again.                                               *)
(***************************************************************************)
CalcIds == { <<"o", "1">>, <<"\t", "O", "1", " ">>, <<"7", "b">> }

CalcRowCands ==
    { [OrganizationID |-> <<"o", "1">>,                Total |-> Num(100)],
      [OrganizationID |-> <<"o", "1">>,                Total |-> Num(50)],
      [OrganizationID |-> <<"\t", "O", "1", " ">>,     Total |-> Text(7)],
      [OrganizationID |-> <<"\t", "O", "1", " ">>,     Total |-> Num(100)],
      [OrganizationID |-> <<"7", "b">>,                Total |-> Num(50)],
      [OrganizationID |-> <<"7", "b">>,                Total |-> Text(7)] }

CalcTables == SeqsUpTo(CalcRowCands, MaxCalcRows)

CalcOrgIdSets == {ids \in SUBSET CalcIds : Cardinality(ids) <= 2}

CalcDates ==
    { Date(2024, 6, 10), Date(2024, 2, 10), Date(2023, 2, 3),
      Date(2100, 2, 10), Date(2024, 1, 7) }

\* x and y differ only in letter case and in leading or trailing whitespace
Pads == { <<>>, <<" ">>, <<"\t">> }

SameLetters(a, b) ==
    /\ Len(a) = Len(b)
    /\ \A k \in 1..Len(a) :
         a[k] = b[k] \/ UpperChar(a[k]) = b[k] \/ a[k] = UpperChar(b[k])

\* what is left of x once a pad is taken off each end
Unpadded(x) ==
    { SubSeq(x, Len(l) + 1, Len(x) - Len(r)) :
        <<l, r>> \in { q \in Pads \X Pads :
                         /\ Len(q[1]) + Len(q[2]) <= Len(x)
                         /\ SubSeq(x, 1, Len(q[1])) = q[1]
                         /\ SubSeq(x, Len(x) - Len(q[2]) + 1, Len(x)) = q[2] } }

IsVariant(x, y) ==
    \E cx \in Unpadded(x), cy \in Unpadded(y) : SameLetters(cx, cy)

InitCalc ==
    /\ env = [cred |-> "valid", token |-> "set", tenant |-> "set", bucket |-> "set"]
    /\ execution_date = Date(2024, 1, 1)
    /\ cfg = NoCfg
    /\ pc = "cm_input"
    /\ result = Running
    /\ df_loaded \in {DF(t) : t \in CalcTables}
    /\ df_current = NoneDF
    /\ df_companies = NoneDF
    /\ idx = 0
    /\ trace = <<>>
    /\ cm_org_ids \in CalcOrgIdSets
    /\ cm_date \in CalcDates
    /\ cm_first = NoMetrics
    /\ cm_out = NoMetrics

\* df_current = df_loaded.copy(); calculate_metrics(df_current, org_ids, data_date)
CalcOn(table, org_ids, next_pc) ==
    /\ cm_out' = calculate_metrics(table.rows, org_ids, cm_date)
    /\ df_current' = DF(TableAfterCalc(table.rows, org_ids))
    /\ df_loaded' = table
    /\ cm_org_ids' = org_ids
    /\ pc' = next_pc
    /\ UNCHANGED <<env, cfg, result, execution_date, df_companies, idx, trace, cm_date>>

\* the first call, on the inputs as drawn
CallCalc ==
    /\ pc = "cm_input"
    /\ CalcOn(df_loaded, cm_org_ids, "cm_called")
    /\ cm_first' = cm_out'

\* one id of org_ids is replaced by a variant of it, and the function is called again
CallWithOrgIdVariant ==
    /\ pc \in {"cm_called", "cm_recalled"}
    /\ \E o \in cm_org_ids, v \in CalcIds :
         /\ v # o
         /\ IsVariant(o, v)
         /\ CalcOn(df_loaded, (cm_org_ids \ {o}) \cup {v}, "cm_recalled")
    /\ UNCHANGED cm_first

\* one OrganizationID of the table is replaced by a variant of it, and the
\* function is called again
CallWithRowIdVariant ==
    /\ pc \in {"cm_called", "cm_recalled"}
    /\ \E k \in 1..Len(df_loaded.rows), v \in CalcIds :
         /\ v # df_loaded.rows[k].OrganizationID
         /\ IsVariant(df_loaded.rows[k].OrganizationID, v)
         /\ CalcOn(DF([df_loaded.rows EXCEPT ![k].OrganizationID = v]), cm_org_ids, "cm_recalled")
    /\ UNCHANGED cm_first

NextCalc == CallCalc \/ CallWithOrgIdVariant \/ CallWithRowIdVariant

SpecCalc == InitCalc /\ [][NextCalc]_vars

(***************************************************************************)
(* What the properties below are stated with.                              *)
(***************************************************************************)
EventsOf(op) == SelectSeq(trace, LAMBDA e : e.op = op)

NullOrEmpty(o) == o = NoneId \/ Len(o) = 0

\* the org ids of the first n roster rows that have one, in roster order
RECURSIVE OrgsOfFirst(_)
OrgsOfFirst(n) ==
    IF n = 0 THEN <<>>
    ELSE IF NullOrEmpty(df_companies.rows[n].OrgID) THEN OrgsOfFirst(n - 1)
    ELSE Append(OrgsOfFirst(n - 1), df_companies.rows[n].OrgID)

RECURSIVE SumAt(_, _)
SumAt(rows, K) ==
    IF K = {} THEN 0
    ELSE LET k == CHOOSE j \in K : TRUE
         IN  rows[k].Total.val + SumAt(rows, K \ {k})

\* the sum of the numeric Totals of the rows whose id is, up to case and
\* surrounding whitespace, one of ids
SumFor(rows, ids) ==
    SumAt(rows, {k \in 1..Len(rows) :
                    /\ rows[k].Total.num
                    /\ \E a \in ids : IsVariant(rows[k].OrganizationID, a)})

\* the lengths of the months the model's dates fall in
MonthLength(dt) ==
    CASE dt.month = 1 -> 31
      [] dt.month = 6 -> 30
      [] dt.month = 2 /\ dt.year = 2024 -> 29
      [] OTHER -> 28

\* f hundredths is num / den rounded to two decimals
IsRounded(f, num, den) ==
    /\ 2 * (f * den - 100 * num) <= den
    /\ 2 * (100 * num - f * den) <= den

AliasSets == {org_id_sets[k] : k \in 1..Len(org_id_sets)}

ConfigPresent ==
    env.cred = "valid" /\ env.token = "set" /\ env.tenant = "set" /\ env.bucket = "set"

CsvFetched == Len(trace) >= 1 /\ trace[1].op = "csv_fetch"

RosterFetched == Len(trace) >= 2 /\ trace[2].op = "roster_fetch"

BothFetchesOk == RosterFetched /\ ~df_loaded.none /\ ~df_companies.none

(***************************************************************************)
(* C1. Whenever one of the four configuration values (credential JSON, API *)
(* token, tenant identifier, bucket name) is absent, the invocation        *)
(* returns a (message, 500) pair and makes no CSV fetch, no roster fetch   *)
(* and no publish call.                                                    *)
(***************************************************************************)
C1_AbsentConfigReturns500 ==
    (/\ pc # "start"
     /\ \/ env.cred = "absent"
        \/ env.token = "absent"
        \/ env.tenant = "absent"
        \/ env.bucket = "absent")
    => /\ pc = "returned"
       /\ result.kind = "return"
       /\ result.code = 500
       /\ trace = <<>>

(***************************************************************************)
(* C2. An absent CSV result makes the invocation return ("CSV data not     *)
(* available", 500) without a roster fetch; a null roster makes it return  *)
(* ("Failed to fetch companies", 500); in both cases nothing is computed   *)
(* and nothing is published.                                               *)
(***************************************************************************)
C2_FetchFailuresFatal ==
    /\ (CsvFetched /\ df_loaded.none)
       => /\ pc = "returned"
          /\ result = Returned("CSV data not available", 500)
          /\ Len(trace) = 1
    /\ (RosterFetched /\ df_companies.none)
       => /\ pc = "returned"
          /\ result = Returned("Failed to fetch companies", 500)
          /\ Len(trace) = 2

C2_Witness ==
    /\ CsvFetched
    /\ ~df_loaded.none
    /\ RosterFetched
    /\ df_companies.none
    /\ result = Returned("Failed to fetch companies", 500)

(***************************************************************************)
(* C3. With the configuration present and both fetches successful, the     *)
(* invocation never raises and returns ("Success", 200) whatever the       *)
(* publish calls answered, and every organization after a failed publish   *)
(* is still computed and published: on return there are as many publish    *)
(* calls as roster entries with an org id.                                 *)
(***************************************************************************)
C3_PublishFailuresNonFatal ==
    BothFetchesOk
    => /\ pc \in {"loop", "returned"}
       /\ Len(EventsOf("calc")) = Len(EventsOf("publish"))
       /\ pc = "returned"
          => /\ result = Returned("Success", 200)
             /\ Len(EventsOf("publish")) = Len(OrgsOfFirst(Len(df_companies.rows)))

C3_Witness ==
    /\ pc = "returned"
    /\ result = Returned("Success", 200)
    /\ Len(EventsOf("publish")) = 2
    /\ EventsOf("publish")[1].outcome = "transport_error"
    /\ EventsOf("publish")[2].outcome = "http_error"

(***************************************************************************)
(* C4. A roster entry whose org id is null or empty is skipped: nothing is *)
(* computed or published for it, the entries after it are still processed, *)
(* and the overall result is still ("Success", 200).                       *)
(***************************************************************************)
C4_MissingOrgIdSkipped ==
    /\ \A k \in 1..Len(trace) : trace[k].op \in {"calc", "publish"}
                                   => ~NullOrEmpty(trace[k].org)
    /\ pc = "loop"
       => [k \in 1..Len(EventsOf("calc")) |-> EventsOf("calc")[k].org] = OrgsOfFirst(idx)
    /\ (pc = "returned" /\ BothFetchesOk)
       => /\ idx = Len(df_companies.rows)
          /\ result = Returned("Success", 200)

C4_Witness ==
    /\ pc = "returned"
    /\ result = Returned("Success", 200)
    /\ Len(df_companies.rows) = 2
    /\ df_companies.rows[1].OrgID = <<>>
    /\ ~NullOrEmpty(df_companies.rows[2].OrgID)
    /\ Len(EventsOf("publish")) = 1

(***************************************************************************)
(* C5. For an organization whose org id is a member of a static alias set  *)
(* the published cumulative metric is the sum of Total over the rows of    *)
(* all ids of that set and the forecasted metric is derived from that sum; *)
(* for an org id in no alias set the metrics are computed over its own id  *)
(* alone.                                                                  *)
(***************************************************************************)
IdsToAggregate(o) ==
    IF \E s \in AliasSets : o \in s
    THEN CHOOSE s \in AliasSets : o \in s
    ELSE {o}

C5_AliasSetAggregated ==
    \A k \in 1..Len(trace) :
      trace[k].op = "publish"
      => LET total == SumFor(df_loaded.rows, IdsToAggregate(trace[k].org))
         IN  /\ trace[k].data[1].value = 100 * total
             /\ IsRounded(trace[k].data[2].value,
                          total * MonthLength(MinusOneDay(execution_date)),
                          MinusOneDay(execution_date).day)

C5_Witness ==
    /\ execution_date = Date(2024, 6, 11)
    /\ Len(df_loaded.rows) = 2
    /\ df_loaded.rows[1].OrganizationID = <<"a", "2">>
    /\ df_loaded.rows[2].OrganizationID = <<" ", "7", "B">>
    /\ \E k \in 1..Len(trace) :
         /\ trace[k].op = "publish"
         /\ trace[k].org = <<"7", "b">>
         /\ trace[k].data[1].value = 300
         /\ trace[k].data[2].value = 900

(***************************************************************************)
(* C6. Every org id comparison is case-insensitive and whitespace-trimmed, *)
(* the alias-set lookup included: a roster org id that equals a member of  *)
(* an alias set after trimming and lowercasing resolves to that set and is *)
(* aggregated over all ids of the set.                                     *)
(***************************************************************************)
C6_AliasLookupNormalized ==
    \A k \in 1..Len(trace) : \A s \in AliasSets :
      (trace[k].op = "calc" /\ \E a \in s : IsVariant(trace[k].org, a))
      => /\ trace[k].ids = s
         /\ trace[k].metrics.cumulative = 100 * SumFor(df_loaded.rows, s)

(***************************************************************************)
(* C7. calculate_metrics is invariant under case and surrounding-          *)
(* whitespace changes to organization ids: replacing an id of org_ids or   *)
(* an OrganizationID of the table by a variant that differs only in letter *)
(* case or leading/trailing whitespace yields the same (cumulative,        *)
(* forecasted) pair.                                                       *)
(***************************************************************************)
C7_CaseWhitespaceInvariant ==
    pc \in {"cm_called", "cm_recalled"} => cm_out = cm_first

C7_Witness ==
    /\ pc = "cm_recalled"
    /\ cm_org_ids = { <<"o", "1">> }
    /\ Len(df_loaded.rows) = 2
    /\ df_loaded.rows[1] = [OrganizationID |-> <<"\t", "O", "1", " ">>, Total |-> Num(100)]
    /\ df_loaded.rows[2] = [OrganizationID |-> <<"o", "1">>, Total |-> Num(50)]
    /\ cm_out.cumulative = 15000
    /\ cm_out = cm_first

(***************************************************************************)
(* C8 as stated. calculate_metrics returns cumulative = the sum of Total   *)
(* over the matching rows (a non-numeric Total counting as 0) and          *)
(* forecasted = (cumulative / day of month) * (days in the month),         *)
(* exactly.                                                                *)
(***************************************************************************)
MatchingRows == {k \in 1..Len(df_loaded.rows) :
                    \E a \in cm_org_ids : IsVariant(df_loaded.rows[k].OrganizationID, a)}

C8_ForecastExact ==
    pc \in {"cm_called", "cm_recalled"}
    => LET total == SumFor(df_loaded.rows, cm_org_ids)
       IN  /\ cm_out.cumulative = 100 * total
           /\ cm_out.forecasted * cm_date.day = 100 * total * MonthLength(cm_date)

(***************************************************************************)
(* C8 as amended. calculate_metrics returns cumulative = the sum of Total  *)
(* over the matching rows (a non-numeric Total counting as 0, its row not  *)
(* dropped) and forecasted = (cumulative / day of month) * (days in the    *)
(* month, leap years included), each rounded to two decimals; with no      *)
(* matching row it returns (0, 0); Totals [100, non-numeric, 50] on day 10 *)
(* of a 30-day month give 150 and 450, a Total of 300 on 2024-02-10 gives  *)
(* a forecast of 870.                                                      *)
(***************************************************************************)
C8_MetricsRoundedToCents ==
    pc \in {"cm_called", "cm_recalled"}
    => LET total == SumFor(df_loaded.rows, cm_org_ids)
           totals == [k \in 1..Len(df_loaded.rows) |-> df_loaded.rows[k].Total]
       IN  /\ cm_out.cumulative = 100 * total
           /\ IsRounded(cm_out.forecasted, total * MonthLength(cm_date), cm_date.day)
           /\ Len(df_current.rows) = Len(df_loaded.rows)
           /\ MatchingRows = {} => cm_out = [cumulative |-> 0, forecasted |-> 0]
           /\ (/\ MatchingRows = 1..Len(df_loaded.rows)
               /\ totals = <<Num(100), Text(7), Num(50)>>
               /\ cm_date = Date(2024, 6, 10))
              => cm_out = [cumulative |-> 15000, forecasted |-> 45000]
           /\ (/\ MatchingRows = 1..Len(df_loaded.rows)
               /\ totals = <<Num(100), Num(100), Num(100)>>
               /\ cm_date = Date(2024, 2, 10))
              => cm_out = [cumulative |-> 30000, forecasted |-> 87000]

C8_Witness ==
    /\ pc = "cm_called"
    /\ cm_date = Date(2024, 6, 10)
    /\ cm_org_ids = { <<"o", "1">> }
    /\ df_loaded.rows = << [OrganizationID |-> <<"o", "1">>, Total |-> Num(100)],
                           [OrganizationID |-> <<"\t", "O", "1", " ">>, Total |-> Text(7)],
                           [OrganizationID |-> <<"o", "1">>, Total |-> Num(50)] >>
    /\ cm_out = [cumulative |-> 15000, forecasted |-> 45000]

ExecutionDateString ==
    IF execution_date = Date(2024, 3, 1)
    THEN <<"2", "0", "2", "4", "-", "0", "3", "-", "0", "1">>
    ELSE <<"2", "0", "2", "4", "-", "0", "6", "-", "1", "1">>

DayBeforeString ==
    IF execution_date = Date(2024, 3, 1)
    THEN <<"2", "0", "2", "4", "-", "0", "2", "-", "2", "9">>
    ELSE <<"2", "0", "2", "4", "-", "0", "6", "-", "1", "0">>

C10_OnePublishPerOrgInOrder ==
    /\ CsvFetched => trace[1].arg = ExecutionDateString
    /\ BothFetchesOk
       => LET orgs == OrgsOfFirst(idx)
          IN  /\ Len(trace) = 2 + 3 * Len(orgs)
              /\ pc = "returned" => idx = Len(df_companies.rows)
              /\ \A k \in 1..Len(orgs) :
                   LET calc == trace[3 * k]
                       publish == trace[3 * k + 1]
                       pause == trace[3 * k + 2]
                   IN  /\ calc.op = "calc"
                       /\ calc.org = orgs[k]
                       /\ publish.op = "publish"
                       /\ publish.org = orgs[k]
                       /\ Len(publish.data) = 2
                       /\ publish.data[1].dimensionId = "Cumulative Billable CPUs"
                       /\ publish.data[1].value = calc.metrics.cumulative
                       /\ publish.data[2].dimensionId = "Forecasted Billable CPUs"
                       /\ publish.data[2].value = calc.metrics.forecasted
                       /\ \A j \in 1..2 : /\ publish.data[j].date = DayBeforeString
                                          /\ publish.data[j].externalId = orgs[k]
                       /\ pause.op = "sleep"

C10_Witness ==
    /\ pc = "returned"
    /\ execution_date = Date(2024, 3, 1)
    /\ Len(df_companies.rows) = 2
    /\ df_companies.rows[1].OrgID = NoneId
    /\ Len(trace) = 5
    /\ trace[4].op = "publish"
    /\ trace[4].outcome = "http_error"
    /\ trace[4].data[1].date = <<"2", "0", "2", "4", "-", "0", "2", "-", "2", "9">>
    /\ trace[5].op = "sleep"

====
